---- MODULE Spec2Model ----
(***************************************************************************)
(* The SOLA Vatzka Max 65 backend (src/main.py, src/schemas.py): the       *)
(* record catalogue, the request boundary, the create/list handlers, the   *)
(* schema endpoint and the availability probe, over a document store.      *)
(*                                                                         *)
(* Values.  A Python str is a TLA+ string, an int an integer, a list a     *)
(* sequence.  An Optional[str] value is a sequence of length at most one:  *)
(* None is <<>> and "t" is <<"t">>.  A value of a JSON request body is a   *)
(* pair <<json type, value>>, so that the type test of validation is a     *)
(* test and not an assumption.  A JSON body is a function from the keys    *)
(* it holds to such pairs; a key the body omits is not in its domain.      *)
(* The store's internal identifier is <<"ObjectId", n>>; its str() is the  *)
(* string StrOid builds.                                                   *)
(*                                                                         *)
(* Every handler touches the shared store in exactly one call (one insert  *)
(* or one find), so concurrent requests are equivalent to some order of    *)
(* these calls; a handler is one atomic step followed by the delivery of   *)
(* its response.                                                           *)
(***************************************************************************)
EXTENDS Integers, Sequences, FiniteSets, TLC

VARIABLES env, reachable, others, store, nextOid, issued, last

vars == <<env, reachable, others, store, nextOid, issued, last>>

(* ------------------------------ bounds -------------------------------- *)

\* The most documents the store holds, over all collections.
MaxDocs == 2

\* The number of collections of other applications in a shared database,
\* when there are any.
MaxOthers == 9

(* --------------------------- src/schemas.py --------------------------- *)

None == <<>>

NoBound == <<>>

Field(n, t, opt, req, dflt, lo, hi) ==
    [name |-> n, type |-> t, optional |-> opt, required |-> req,
     default |-> dflt, ge |-> lo, le |-> hi]

\* Field(...) marks a field required; a required field has no default.
Required(n, t) == Field(n, t, FALSE, TRUE, None, NoBound, NoBound)

OptionalStr(n) == Field(n, "str", TRUE, FALSE, None, NoBound, NoBound)

\* A model class: its __name__, a sequence of characters, and its
\* model_fields in declaration order.
Class(n, fs) == [name |-> n, model_fields |-> fs]

User ==
    Class(<< "U", "s", "e", "r" >>,
    << Required("name", "str"),
       Required("email", "str"),
       Required("address", "str"),
       Field("age", "int", TRUE, FALSE, None, <<0>>, <<120>>),
       Field("is_active", "bool", FALSE, FALSE, TRUE, NoBound, NoBound) >>)

Product ==
    Class(<< "P", "r", "o", "d", "u", "c", "t" >>,
    << Required("title", "str"),
       OptionalStr("description"),
       Field("price", "float", FALSE, TRUE, None, <<0>>, NoBound),
       Required("category", "str"),
       Field("in_stock", "bool", FALSE, FALSE, TRUE, NoBound, NoBound) >>)

Channel ==
    Class(<< "C", "h", "a", "n", "n", "e", "l" >>,
    << Required("name", "str"),
       OptionalStr("topic") >>)

Message ==
    Class(<< "M", "e", "s", "s", "a", "g", "e" >>,
    << Required("channel_id", "str"),
       Required("sender", "str"),
       OptionalStr("text"),
       OptionalStr("voice_url") >>)

PaymentIntent ==
    Class(<< "P", "a", "y", "m", "e", "n", "t", "I", "n", "t", "e", "n", "t" >>,
    << Required("user_email", "str"),
       Required("plan", "str"),
       Field("amount_cents", "int", FALSE, TRUE, None, <<0>>, NoBound),
       Field("currency", "str", FALSE, FALSE, "USD", NoBound, NoBound),
       Field("status", "str", FALSE, FALSE, "created", NoBound, NoBound) >>)

Project ==
    Class(<< "P", "r", "o", "j", "e", "c", "t" >>,
    << Required("title", "str"),
       Field("bpm", "int", FALSE, FALSE, 120, <<40>>, <<300>>),
       Field("key", "str", FALSE, FALSE, "C Major", NoBound, NoBound),
       Field("tracks", "list", FALSE, FALSE, <<>>, NoBound, NoBound) >>)

Device ==
    Class(<< "D", "e", "v", "i", "c", "e" >>,
    << Required("name", "str"),
       OptionalStr("manufacturer"),
       Required("connection", "str") >>)

\* The request model of POST /payments/intent (src/main.py): amount_cents
\* is a plain int here, with no lower bound.
CreatePaymentRequest ==
    Class(<< "C", "r", "e", "a", "t", "e", "P", "a", "y", "m", "e", "n", "t", "R", "e", "q", "u", "e", "s", "t" >>,
    << Required("user_email", "str"),
       Required("plan", "str"),
       Required("amount_cents", "int"),
       Field("currency", "str", FALSE, FALSE, "USD", NoBound, NoBound) >>)

(* ------------------- validation of a body by a model ------------------ *)

NameSet(M) == {M.model_fields[i].name : i \in 1..Len(M.model_fields)}

FieldOf(M, n) ==
    M.model_fields[CHOOSE i \in 1..Len(M.model_fields) : M.model_fields[i].name = n]

\* The errors of one field: a required field that is missing, a value of
\* another type than the field's, a value outside the field's bounds.
\* (A JSON string of digits is converted for an int field; the bodies sent
\* here hold no such value, so a type differs only where validation fails.)
FieldErrors(f, p) ==
    IF f.name \notin DOMAIN p
    THEN IF f.required THEN {[loc |-> f.name, type |-> "missing"]} ELSE {}
    ELSE IF p[f.name][1] # f.type
    THEN {[loc |-> f.name, type |-> f.type \o "_type"]}
    ELSE IF f.ge # NoBound /\ p[f.name][2] < f.ge[1]
    THEN {[loc |-> f.name, type |-> "greater_than_equal"]}
    ELSE IF f.le # NoBound /\ p[f.name][2] > f.le[1]
    THEN {[loc |-> f.name, type |-> "less_than_equal"]}
    ELSE {}

Errors(M, p) ==
    UNION {FieldErrors(M.model_fields[i], p) : i \in 1..Len(M.model_fields)}

\* The value a field takes: its default when the body omits it, the
\* body's value otherwise.  Keys the model does not declare are ignored.
FieldValue(f, p) ==
    IF f.name \notin DOMAIN p THEN f.default
    ELSE IF f.optional THEN <<p[f.name][2]>>
    ELSE p[f.name][2]

Construct(M, p) == [n \in NameSet(M) |-> FieldValue(FieldOf(M, n), p)]

(* ------------------------- the document store ------------------------- *)

\* The collections the handlers of src/main.py name.
Kinds == {"channel", "message", "project", "device", "paymentintent"}

KindOrder == <<"channel", "message", "project", "device", "paymentintent">>

ObjectId(n) == <<"ObjectId", n>>

\* str() of a stored identifier: a non-empty string, one per ObjectId.
str(x) == IF x[1] = "ObjectId" THEN "oid" \o ToString(x[2]) ELSE "None"

\* Python truth of an optional string: neither None nor the empty string.
Truthy(x) == x # None /\ x[1] # ""

\* os.getenv: the variable's value, None when it is not set.
Getenv(name) == env[name]

\* The module-level handle: None unless both variables are configured.
db == IF Truthy(Getenv("DATABASE_URL")) /\ Truthy(Getenv("DATABASE_NAME"))
      THEN <<[name |-> Getenv("DATABASE_NAME")[1]]>>
      ELSE None

TotalDocs(st) == Len(st["channel"]) + Len(st["message"]) + Len(st["project"])
                 + Len(st["device"]) + Len(st["paymentintent"])

\* The outcome of a call of the store: whether it raised, what it returned,
\* and the store after it.
StoreRaised == [raised |-> TRUE, id |-> "", docs |-> <<>>, store |-> store, nextOid |-> nextOid]

\* create(kind, record) -> identifier: a new identifier, the record
\* persisted verbatim plus the identifier; fails when the store is not
\* configured or cannot be reached.
create_document(collection_name, data) ==
    IF db = None \/ ~reachable THEN StoreRaised
    ELSE LET oid == ObjectId(nextOid)
             doc == [k \in DOMAIN data \cup {"_id"} |->
                        IF k = "_id" THEN oid ELSE data[k]]
         IN  [raised |-> FALSE, id |-> str(oid), docs |-> <<>>,
              store |-> [store EXCEPT ![collection_name] = Append(@, doc)],
              nextOid |-> nextOid + 1]

Matches(doc, filter_dict) ==
    \A k \in DOMAIN filter_dict : k \in DOMAIN doc /\ doc[k] = filter_dict[k]

Min(a, b) == IF a < b THEN a ELSE b

\* list(kind, filter, limit): the records matching the filter, in
\* insertion order, at most limit of them.
get_documents(collection_name, filter_dict, limit) ==
    IF db = None \/ ~reachable THEN StoreRaised
    ELSE LET Hit(d) == Matches(d, filter_dict)
             found == SelectSeq(store[collection_name], Hit)
         IN  [raised |-> FALSE, id |-> "",
              docs |-> SubSeq(found, 1, Min(limit, Len(found))),
              store |-> store, nextOid |-> nextOid]

OtherNames == [i \in 1..others |-> "other" \o ToString(i)]

\* db.list_collection_names(): a collection exists once it holds a document.
list_collection_names ==
    LET NonEmpty(k) == Len(store[k]) > 0
    IN  OtherNames \o SelectSeq(KindOrder, NonEmpty)

(* ------------------------ responses (FastAPI) ------------------------- *)

\* What a handler yields: the response, whether it called the store, and
\* the store after it.
Outcome(status, body, detail, queried, st, oid) ==
    [status |-> status, body |-> body, detail |-> detail, queried |-> queried,
     store |-> st, nextOid |-> oid]

Ok(body, queried, r) == Outcome(200, body, {}, queried, r.store, r.nextOid)

\* A request the boundary rejects: 422 with the failing fields.
UnprocessableEntity(errs) == Outcome(422, <<>>, errs, FALSE, store, nextOid)

\* An exception that leaves a handler: 500.
InternalServerError(queried) == Outcome(500, <<>>, {}, queried, store, nextOid)

\* A limit brought into the bounds instead of rejected.
Query_clamped(param, default, lo, hi) ==
    IF param = None THEN [errors |-> {}, value |-> default]
    ELSE IF param[1] < lo THEN [errors |-> {}, value |-> lo]
    ELSE IF param[1] > hi THEN [errors |-> {}, value |-> hi]
    ELSE [errors |-> {}, value |-> param[1]]

\* Query(default, ge=lo, le=hi) on an optional integer parameter.
Query(param, default, lo, hi) ==
    IF param = None THEN [errors |-> {}, value |-> default]
    ELSE IF param[1] < lo
    THEN [errors |-> {[loc |-> "limit", type |-> "greater_than_equal"]}, value |-> 0]
    ELSE IF param[1] > hi
    THEN [errors |-> {[loc |-> "limit", type |-> "less_than_equal"]}, value |-> 0]
    ELSE [errors |-> {}, value |-> param[1]]

\* for d in docs: d["_id"] = str(d.get("_id"))
Stringified(docs) == [i \in 1..Len(docs) |-> [docs[i] EXCEPT !["_id"] = str(@)]]

EmptyFilter == <<>>

(* ---------------------------- src/main.py ----------------------------- *)

\* A report that kept what the probe learnt of the configuration.
ConfigurationKept(report) == report

\* database_url and database_name are set last, from the environment, to
\* "Set" or "Not Set".
ConfigurationPresence(report) ==
    [report EXCEPT
        !.database_url = IF Truthy(Getenv("DATABASE_URL"))
                         THEN <<"Set">> ELSE <<"Not Set">>,
        !.database_name = IF Truthy(Getenv("DATABASE_NAME"))
                          THEN <<"Set">> ELSE <<"Not Set">>]

\* GET /test
test_database ==
    LET response == [backend |-> "Running",
                     database |-> "Not Available",
                     database_url |-> None,
                     database_name |-> None,
                     connection_status |-> "Not Connected",
                     collections |-> <<>>]
        connected == [response EXCEPT !.database = "Available",
                                      !.database_url = <<"Configured">>,
                                      !.database_name = <<db[1].name>>,
                                      !.connection_status = "Connected"]
        collections == list_collection_names
        probed == IF db # None
                  THEN IF reachable
                       THEN [connected EXCEPT
                               !.collections = SubSeq(collections, 1, Min(10, Len(collections))),
                               !.database = "Connected & Working"]
                       ELSE [connected EXCEPT !.database = "Connected but Error"]
                  ELSE [response EXCEPT !.database = "Available but not initialized"]
    IN  Outcome(200, ConfigurationPresence(probed), {}, db # None, store, nextOid)

Uppercase == <<"A", "B", "C", "D", "E", "F", "G", "H", "I", "J", "K", "L", "M",
               "N", "O", "P", "Q", "R", "S", "T", "U", "V", "W", "X", "Y", "Z">>

Lowercase == <<"a", "b", "c", "d", "e", "f", "g", "h", "i", "j", "k", "l", "m",
               "n", "o", "p", "q", "r", "s", "t", "u", "v", "w", "x", "y", "z">>

\* The name as the class spells it.
lower_omitted(name) == name

\* str.lower(), character by character.
lower(name) ==
    [i \in 1..Len(name) |->
        IF \E j \in 1..26 : Uppercase[j] = name[i]
        THEN Lowercase[CHOOSE j \in 1..26 : Uppercase[j] = name[i]]
        ELSE name[i]]

SchemaResponse(M) ==
    [name |-> lower(M.name),
     fields |-> [i \in 1..Len(M.model_fields) |-> M.model_fields[i].name]]

\* GET /schema
get_schema ==
    LET models == <<Channel, Message, PaymentIntent, Project, Device>>
    IN  Outcome(200, [i \in 1..Len(models) |-> SchemaResponse(models[i])],
                {}, FALSE, store, nextOid)

\* GET /channels
list_channels(limit) ==
    LET q == Query(limit, 20, 1, 100)
        r == get_documents("channel", EmptyFilter, q.value)
    IN  IF q.errors # {} THEN UnprocessableEntity(q.errors)
        ELSE IF r.raised THEN InternalServerError(TRUE)
        ELSE Ok(Stringified(r.docs), TRUE, r)

\* POST /channels
create_channel(body) ==
    LET r == create_document("channel", Construct(Channel, body))
    IN  IF Errors(Channel, body) # {} THEN UnprocessableEntity(Errors(Channel, body))
        ELSE IF r.raised THEN InternalServerError(TRUE)
        ELSE Ok([id |-> r.id], TRUE, r)

\* GET /messages
list_messages(channel_id, limit) ==
    LET q == Query(limit, 50, 1, 200)
        filt == IF Truthy(channel_id) THEN [channel_id |-> channel_id[1]] ELSE EmptyFilter
        r == get_documents("message", filt, q.value)
    IN  IF q.errors # {} THEN UnprocessableEntity(q.errors)
        ELSE IF r.raised THEN InternalServerError(TRUE)
        ELSE Ok(Stringified(r.docs), TRUE, r)

\* The message's channel_id returned in place of the new identifier.
create_message_wrong_id(body) ==
    LET r == create_document("message", Construct(Message, body))
    IN  IF Errors(Message, body) # {} THEN UnprocessableEntity(Errors(Message, body))
        ELSE IF r.raised THEN InternalServerError(TRUE)
        ELSE Ok([id |-> Construct(Message, body).channel_id], TRUE, r)

\* POST /messages
create_message(body) ==
    LET r == create_document("message", Construct(Message, body))
    IN  IF Errors(Message, body) # {} THEN UnprocessableEntity(Errors(Message, body))
        ELSE IF r.raised THEN InternalServerError(TRUE)
        ELSE Ok([id |-> r.id], TRUE, r)

\* GET /projects
list_projects(limit) ==
    LET q == Query(limit, 20, 1, 100)
        r == get_documents("project", EmptyFilter, q.value)
    IN  IF q.errors # {} THEN UnprocessableEntity(q.errors)
        ELSE IF r.raised THEN InternalServerError(TRUE)
        ELSE Ok(Stringified(r.docs), TRUE, r)

\* The project persisted before its constraints are looked at.
create_project_persist_first(body) ==
    LET r == create_document("project", Construct(Project, body))
    IN  IF r.raised THEN InternalServerError(TRUE)
        ELSE IF Errors(Project, body) # {}
        THEN Outcome(422, <<>>, Errors(Project, body), TRUE, r.store, r.nextOid)
        ELSE Ok([id |-> r.id], TRUE, r)

\* POST /projects
create_project(body) ==
    LET r == create_document("project", Construct(Project, body))
    IN  IF Errors(Project, body) # {} THEN UnprocessableEntity(Errors(Project, body))
        ELSE IF r.raised THEN InternalServerError(TRUE)
        ELSE Ok([id |-> r.id], TRUE, r)

\* GET /devices
list_devices(limit) ==
    LET q == Query(limit, 50, 1, 200)
        r == get_documents("device", EmptyFilter, q.value)
    IN  IF q.errors # {} THEN UnprocessableEntity(q.errors)
        ELSE IF r.raised THEN InternalServerError(TRUE)
        ELSE Ok(Stringified(r.docs), TRUE, r)

\* The device persisted in the collection of the handler above.
register_device_as_project(body) ==
    LET r == create_document("project", Construct(Device, body))
    IN  IF Errors(Device, body) # {} THEN UnprocessableEntity(Errors(Device, body))
        ELSE IF r.raised THEN InternalServerError(TRUE)
        ELSE Ok([id |-> r.id], TRUE, r)

\* POST /devices
register_device(body) ==
    LET r == create_document("device", Construct(Device, body))
    IN  IF Errors(Device, body) # {} THEN UnprocessableEntity(Errors(Device, body))
        ELSE IF r.raised THEN InternalServerError(TRUE)
        ELSE Ok([id |-> r.id], TRUE, r)

\* The keyword arguments without the request's currency.
IntentArguments_no_currency(data) ==
    [user_email |-> <<"str", data.user_email>>,
     plan |-> <<"str", data.plan>>,
     amount_cents |-> <<"int", data.amount_cents>>,
     status |-> <<"str", "created">>]

\* The keyword arguments the handler gives PaymentIntent: the request's
\* four fields and status="created".
IntentArguments(data) ==
    [user_email |-> <<"str", data.user_email>>,
     plan |-> <<"str", data.plan>>,
     amount_cents |-> <<"int", data.amount_cents>>,
     currency |-> <<"str", data.currency>>,
     status |-> <<"str", "created">>]

\* POST /payments/intent: the body is bound to CreatePaymentRequest at the
\* boundary; PaymentIntent is built inside the handler, where a validation
\* error is an exception of the handler.
create_payment_intent(body) ==
    LET data == Construct(CreatePaymentRequest, body)
        args == IntentArguments(data)
        r == create_document("paymentintent", Construct(PaymentIntent, args))
    IN  IF Errors(CreatePaymentRequest, body) # {}
        THEN UnprocessableEntity(Errors(CreatePaymentRequest, body))
        ELSE IF Errors(PaymentIntent, args) # {} THEN InternalServerError(FALSE)
        ELSE IF r.raised THEN InternalServerError(TRUE)
        ELSE Ok([id |-> r.id, status |-> "created"], TRUE, r)

(* ------------------------- the requests sent -------------------------- *)

JStr(x) == <<"str", x>>

JInt(n) == <<"int", n>>

JList(l) == <<"list", l>>

\* A JSON object where a string or a number is expected.
JObject == <<"object", <<>>>>

ChannelBodies ==
    { [name |-> JStr("general")],
      [name |-> JStr("general"), topic |-> JStr("jam")],
      [name |-> JStr("")],
      [topic |-> JStr("jam")],
      [name |-> JObject] }

MessageBodies ==
    { [channel_id |-> JStr(c), sender |-> JStr("ann")] : c \in {"", "a", "b"} }
    \cup { [sender |-> JStr("ann")],
           [channel_id |-> JStr("a")] }

ProjectBodies ==
    { [title |-> JStr("Demo"), bpm |-> JInt(n)] : n \in {39, 40, 300, 301, 500} }
    \cup { [title |-> JStr("Demo")],
           [title |-> JStr("Demo"), bpm |-> JInt(128), key |-> JStr("A Minor"),
            tracks |-> JList(<<"drum", "bass">>)],
           [bpm |-> JInt(128)],
           [title |-> JStr("Demo"), bpm |-> JObject] }

DeviceBodies ==
    { [name |-> JStr("keys"), manufacturer |-> JStr("Akai"), connection |-> JStr("midi")],
      [name |-> JStr("keys")],
      [connection |-> JStr("midi")] }

PaymentBodies ==
    { [user_email |-> JStr("a@b.com"), plan |-> JStr("pro"), amount_cents |-> JInt(n)]
        : n \in {-1, 0, 999} }
    \cup { [user_email |-> JStr("a@b.com"), plan |-> JStr("pro"), amount_cents |-> JInt(-1),
            currency |-> JStr("EUR")],
           [user_email |-> JStr("a@b.com"), plan |-> JStr("pro"), amount_cents |-> JInt(999),
            currency |-> JStr("EUR"), status |-> JStr("paid")],
           [user_email |-> JStr("a@b.com"), amount_cents |-> JInt(999)],
           [user_email |-> JStr("a@b.com"), plan |-> JStr("pro")],
           [user_email |-> JStr("a@b.com"), plan |-> JStr("pro"), amount_cents |-> JObject] }

Limits == {None} \cup { <<n>> : n \in {0, 1, 100, 101, 200, 201} }

ChannelIds == {None, <<"">>, <<"a">>}

(* --------------------------- the state machine ------------------------ *)

Idle == [method |-> "", route |-> "", req |-> <<>>, status |-> 0, body |-> <<>>,
         detail |-> {}, queried |-> FALSE]

EnvValues ==
    [DATABASE_URL : {None, <<"mongodb://sola:secret@db">>},
     DATABASE_NAME : {None, <<"soladb">>}]

Init ==
    /\ env \in EnvValues
    /\ reachable \in (IF db = None THEN {FALSE} ELSE BOOLEAN)
    /\ others \in (IF db = None THEN {0} ELSE {0, MaxOthers})
    /\ store = [k \in Kinds |-> <<>>]
    /\ nextOid = 1
    /\ issued = <<>>
    /\ last = Idle

\* One request handled: the response is recorded, the store is what the
\* handler left, and an identifier a create returned is noted in issued.
Serve(method, route, req, out) ==
    /\ last.route = ""
    /\ TotalDocs(out.store) <= MaxDocs
    /\ last' = [method |-> method, route |-> route, req |-> req,
                status |-> out.status, body |-> out.body, detail |-> out.detail,
                queried |-> out.queried]
    /\ store' = out.store
    /\ nextOid' = out.nextOid
    /\ issued' = IF method = "POST" /\ out.status = 200
                 THEN Append(issued, [route |-> route, body |-> req, id |-> out.body.id])
                 ELSE issued
    /\ UNCHANGED <<env, reachable, others>>

GetTest == Serve("GET", "/test", <<>>, test_database)

GetSchema == Serve("GET", "/schema", <<>>, get_schema)

GetChannels ==
    \E limit \in Limits :
        Serve("GET", "/channels", [limit |-> limit], list_channels(limit))

PostChannels ==
    \E body \in ChannelBodies : Serve("POST", "/channels", body, create_channel(body))

GetMessages ==
    \E channel_id \in ChannelIds, limit \in Limits :
        Serve("GET", "/messages", [channel_id |-> channel_id, limit |-> limit],
              list_messages(channel_id, limit))

PostMessages ==
    \E body \in MessageBodies : Serve("POST", "/messages", body, create_message(body))

GetProjects ==
    \E limit \in Limits :
        Serve("GET", "/projects", [limit |-> limit], list_projects(limit))

PostProjects ==
    \E body \in ProjectBodies : Serve("POST", "/projects", body, create_project(body))

GetDevices ==
    \E limit \in Limits :
        Serve("GET", "/devices", [limit |-> limit], list_devices(limit))

PostDevices ==
    \E body \in DeviceBodies : Serve("POST", "/devices", body, register_device(body))

PostPaymentsIntent ==
    \E body \in PaymentBodies :
        Serve("POST", "/payments/intent", body, create_payment_intent(body))

\* The response reaches the caller; the server takes the next request.
Deliver ==
    /\ last.route # ""
    /\ last' = Idle
    /\ UNCHANGED <<env, reachable, others, store, nextOid, issued>>

\* A configured store becomes unreachable, or reachable again.
Connectivity ==
    /\ last.route = ""
    /\ db # None
    /\ reachable' = ~reachable
    /\ UNCHANGED <<env, others, store, nextOid, issued, last>>

Next ==
    \/ GetTest
    \/ GetSchema
    \/ GetChannels
    \/ PostChannels
    \/ GetMessages
    \/ PostMessages
    \/ GetProjects
    \/ PostProjects
    \/ GetDevices
    \/ PostDevices
    \/ PostPaymentsIntent
    \/ Deliver
    \/ Connectivity

Spec == Init /\ [][Next]_vars

(* ----------------------- vocabulary of the claims --------------------- *)

CreateRoutes == {"/channels", "/messages", "/projects", "/devices", "/payments/intent"}

ListRoutes == {"/channels", "/messages", "/projects", "/devices"}

\* The catalogue entry and the collection behind a route.
KindOf(route) ==
    CASE route = "/channels" -> Channel
      [] route = "/messages" -> Message
      [] route = "/projects" -> Project
      [] route = "/devices" -> Device
      [] route = "/payments/intent" -> PaymentIntent

CollectionOf(route) ==
    CASE route = "/channels" -> "channel"
      [] route = "/messages" -> "message"
      [] route = "/projects" -> "project"
      [] route = "/devices" -> "device"
      [] route = "/payments/intent" -> "paymentintent"

\* The route's documented upper bound and default of limit.
UpperBound(route) == IF route \in {"/channels", "/projects"} THEN 100 ELSE 200

DefaultLimit(route) == IF route \in {"/channels", "/projects"} THEN 20 ELSE 50

\* A create request whose body violates a declared constraint of its kind.
Violating(route, body) == Errors(KindOf(route), body) # {}

IsCreate == last.method = "POST" /\ last.route \in CreateRoutes

IsList == last.method = "GET" /\ last.route \in ListRoutes

\* The successful creates of a route, oldest first, and their identifiers.
IssuedOn(route) ==
    LET On(e) == e.route = route IN SelectSeq(issued, On)

IdsIssuedOn(route) == [i \in 1..Len(IssuedOn(route)) |-> IssuedOn(route)[i].id]

IdsStored(route) ==
    [i \in 1..Len(store[CollectionOf(route)]) |-> str(store[CollectionOf(route)][i]["_id"])]

\* A record without its identifier.
Fields(d) == [k \in DOMAIN d \ {"_id"} |-> d[k]]

(* -------------------------------- C1 ---------------------------------- *)

\* C1: a create whose payload violates a declared constraint of its kind is
\* rejected before anything is persisted: it is never answered with success,
\* the records of every kind are exactly those of the successful creates (so
\* a following list counts what it counted before), and every record holds
\* all the fields of its kind.
C1_RejectedCreatePersistsNothing ==
    /\ IsCreate /\ Violating(last.route, last.req) => last.status # 200
    /\ \A r \in CreateRoutes :
          /\ Len(store[CollectionOf(r)]) = Len(IssuedOn(r))
          /\ \A i \in 1..Len(IssuedOn(r)) : ~Violating(r, IssuedOn(r)[i].body)
          /\ \A i \in 1..Len(store[CollectionOf(r)]) :
                DOMAIN store[CollectionOf(r)][i] = NameSet(KindOf(r)) \cup {"_id"}

\* POST /projects with bpm=500 is rejected while a project exists, and one
\* project is all there is.
C1_Witness ==
    /\ last.method = "POST" /\ last.route = "/projects"
    /\ "bpm" \in DOMAIN last.req /\ last.req.bpm = JInt(500)
    /\ last.status = 422
    /\ Len(store["project"]) = 1

(* -------------------------------- C2 ---------------------------------- *)

\* The latest successful create, and the record it asked for: the body's
\* fields, with the defaults of the fields it omits.
Created == issued[Len(issued)]

Expected == Construct(KindOf(Created.route), Created.body)

\* A successful list on the route of the latest successful create, with a
\* filter that matches the record created.
ListAfterCreate ==
    /\ IsList /\ last.status = 200
    /\ issued # <<>> /\ Created.route = last.route
    /\ last.route = "/messages" =>
          \/ last.req.channel_id = None
          \/ last.req.channel_id[1] = Expected.channel_id

EffectiveLimit ==
    IF last.req.limit = None THEN DefaultLimit(last.route) ELSE last.req.limit[1]

\* C2 as stated: a create followed by a list with a matching filter returns
\* a sequence with exactly one record whose fields equal the input.
C2_Original ==
    ListAfterCreate =>
        Cardinality({i \in 1..Len(last.body) : Fields(last.body[i]) = Expected}) = 1

\* C2 amended: when the limit is not below the number of records of the
\* kind, the list holds exactly one record with the assigned identifier, and
\* its fields equal the input with defaults applied.
C2_CreatedRecordIsListed ==
    ListAfterCreate /\ Len(store[CollectionOf(last.route)]) <= EffectiveLimit =>
        /\ Cardinality({i \in 1..Len(last.body) : last.body[i]["_id"] = Created.id}) = 1
        /\ \A i \in 1..Len(last.body) :
              last.body[i]["_id"] = Created.id => Fields(last.body[i]) = Expected

\* The documented scenario: the Demo project, omitting nothing, is created
\* after another project and then listed.
C2_Witness ==
    /\ ListAfterCreate /\ last.route = "/projects"
    /\ "tracks" \in DOMAIN Created.body
    /\ Len(last.body) = 2
    /\ last.body[2].title = "Demo" /\ last.body[2].bpm = 128
    /\ last.body[2]["_id"] = Created.id

(* -------------------------------- C3 ---------------------------------- *)

C4_LimitChecked ==
    IsList =>
        IF last.req.limit # None
           /\ (last.req.limit[1] < 1 \/ last.req.limit[1] > UpperBound(last.route))
        THEN /\ last.status = 422
             /\ ~last.queried
             /\ \E e \in last.detail : e.loc = "limit"
        ELSE /\ last.status # 422
             /\ last.queried
             /\ last.status = 200 => Len(last.body) <= EffectiveLimit

\* GET /channels?limit=101 is rejected while channels exist.
C4_Witness ==
    /\ IsList /\ last.route = "/channels"
    /\ last.req.limit = <<101>>
    /\ last.status = 422
    /\ Len(store["channel"]) > 0

(* -------------------------------- C5 ---------------------------------- *)

ConfiguredValues == {env.DATABASE_URL, env.DATABASE_NAME} \ {None}

\* C5: GET /test always answers with a report.  Without a configured store
\* the report says so and lists no collections; with a reachable store it
\* lists the first 10 collection names at most; database_url and
\* database_name say only whether the variable is set.
C5_ProbeReports ==
    last.route = "/test" =>
        /\ last.status = 200
        /\ db = None =>
              /\ last.body.database = "Available but not initialized"
              /\ last.body.connection_status = "Not Connected"
              /\ last.body.collections = <<>>
        /\ db # None /\ reachable =>
              /\ Len(last.body.collections) <= 10
              /\ \A i \in 1..Len(last.body.collections) :
                    last.body.collections[i] = list_collection_names[i]
              /\ Len(list_collection_names) <= 10
                    => last.body.collections = list_collection_names
        /\ last.body.database_url =
              (IF env.DATABASE_URL = None THEN <<"Not Set">> ELSE <<"Set">>)
        /\ last.body.database_name =
              (IF env.DATABASE_NAME = None THEN <<"Not Set">> ELSE <<"Set">>)
        /\ last.body.database_url \notin ConfiguredValues
        /\ last.body.database_name \notin ConfiguredValues

\* The probe of a reachable store that holds more than 10 collections.
C5_Witness ==
    /\ last.route = "/test"
    /\ db # None /\ reachable
    /\ Len(list_collection_names) > 10
    /\ Len(last.body.collections) = 10

(* -------------------------------- C6 ---------------------------------- *)

Chars(kind) ==
    CASE kind = "channel" -> <<"c", "h", "a", "n", "n", "e", "l">>
      [] kind = "message" -> <<"m", "e", "s", "s", "a", "g", "e">>
      [] kind = "paymentintent" ->
            <<"p", "a", "y", "m", "e", "n", "t", "i", "n", "t", "e", "n", "t">>
      [] kind = "project" -> <<"p", "r", "o", "j", "e", "c", "t">>
      [] kind = "device" -> <<"d", "e", "v", "i", "c", "e">>

\* C6: GET /schema returns one entry for each of channel, message,
\* paymentintent, project and device and no other, named in lower case,
\* with the declared field names in declaration order, in every state.
C6_SchemaExact ==
    last.route = "/schema" =>
        /\ last.status = 200
        /\ last.body =
              << [name |-> Chars("channel"), fields |-> <<"name", "topic">>],
                 [name |-> Chars("message"),
                  fields |-> <<"channel_id", "sender", "text", "voice_url">>],
                 [name |-> Chars("paymentintent"),
                  fields |-> <<"user_email", "plan", "amount_cents", "currency", "status">>],
                 [name |-> Chars("project"), fields |-> <<"title", "bpm", "key", "tracks">>],
                 [name |-> Chars("device"),
                  fields |-> <<"name", "manufacturer", "connection">>] >>

\* The schema asked of a server whose store holds records and cannot be
\* reached.
C6_Witness ==
    /\ last.route = "/schema"
    /\ TotalDocs(store) > 0
    /\ ~reachable

(* -------------------------------- C7 ---------------------------------- *)

\* C7: every payment intent persisted has status "created" and an amount
\* that is not negative; there is one for each successful request and no
\* other; a successful request is answered {id, status: "created"} and its
\* record holds the request's currency, "USD" when it gave none.
C7_PaymentIntentCreated ==
    /\ \A i \in 1..Len(store["paymentintent"]) :
          LET d == store["paymentintent"][i]
              body == IssuedOn("/payments/intent")[i].body
          IN  /\ "status" \in DOMAIN d /\ d.status = "created"
              /\ d.amount_cents >= 0
              /\ Len(IssuedOn("/payments/intent")) >= i
              /\ str(d["_id"]) = IssuedOn("/payments/intent")[i].id
              /\ d.currency = (IF "currency" \in DOMAIN body THEN body.currency[2] ELSE "USD")
    /\ Len(store["paymentintent"]) = Len(IssuedOn("/payments/intent"))
    /\ last.route = "/payments/intent" /\ last.status = 200 =>
          /\ last.body = [id |-> last.body.id, status |-> "created"]
          /\ Len(store["paymentintent"]) > 0
          /\ str(store["paymentintent"][Len(store["paymentintent"])]["_id"]) = last.body.id

\* The documented request, with no currency, has succeeded.
C7_Witness ==
    /\ last.route = "/payments/intent" /\ last.status = 200
    /\ DOMAIN last.req = {"user_email", "plan", "amount_cents"}
    /\ last.req.amount_cents = JInt(999)
    /\ store["paymentintent"][Len(store["paymentintent"])].currency = "USD"

(* -------------------------------- C8 ---------------------------------- *)

\* C8: a create whose payload fails the constraints of its kind is answered
\* with a client error that names the failing fields, never with a server
\* error or a success.
C8_ViolationIsClientError ==
    IsCreate /\ Violating(last.route, last.req) =>
        /\ last.status = 422
        /\ {e.loc : e \in last.detail} = {e.loc : e \in Errors(KindOf(last.route), last.req)}

(* -------------------------------- C9 ---------------------------------- *)

\* C9: no channel record has an empty name.
C9_ChannelNameNonEmpty ==
    \A i \in 1..Len(store["channel"]) : store["channel"][i].name # ""

(* -------------------------------- C10 --------------------------------- *)

\* C10: every record GET /messages returns for a supplied channel_id, the
\* empty string included, has exactly that channel_id, and its identifier
\* is the string form of the stored one.
C10_MessagesOfChannelOnly ==
    last.method = "GET" /\ last.route = "/messages" /\ last.status = 200
    /\ last.req.channel_id # None =>
        \A i \in 1..Len(last.body) :
            /\ last.body[i].channel_id = last.req.channel_id[1]
            /\ \E j \in 1..Len(store["message"]) :
                  last.body[i]["_id"] = str(store["message"][j]["_id"])

====
